---- MODULE Spec2Model ----
(***************************************************************************)
(* The data-access layer of the project tracker (database.py) and the web  *)
(* routes that call it (app.py), as a state machine over the three MongoDB *)
(* collections projects, tasks and time_logs.                              *)
(*                                                                         *)
(* Encodings.                                                              *)
(*   - An ObjectId is a positive integer; insert_one issues next_oid, so   *)
(*     an id is never issued twice, across all collections.  A caller's id *)
(*     argument of 0 stands for a value that is not an ObjectId.           *)
(*   - A collection is a function from the _id of its documents to the     *)
(*     document, a record of the fields the handlers read or write.        *)
(*   - An optional value (Python None or a value) is a sequence of length  *)
(*     0 or 1: <<>> is None, <<v>> is v.                                   *)
(*   - A text is a sequence of characters.                                 *)
(*   - A caller-supplied Python value of unknown type is a record          *)
(*     [kind, n]: kind "int" is the integer n, "float" the float n/10,     *)
(*     "str" the decimal string of n, "text" a string that is no number,   *)
(*     "inf" is float("inf"), "None" is None, "datetime" the day n.        *)
(***************************************************************************)
EXTENDS Integers, Sequences, FiniteSets, TLC

\* ObjectIds the store issues in one run.
MaxOids == 3
\* Calendar days 1..MaxDate.
MaxDate == 2
\* Projects created where the project fields vary.
MaxProjects == 2
\* Documents created where the fields of tasks and the clock vary.
MaxDocs == 2
\* Threads that each call connect_db() once, concurrently.
MaxThreads == 3
\* Store calls in progress at the same time, one per worker thread.
MaxCalls == 2
\* Clock readings 0..MaxTime, in milliseconds, the resolution of a stored timestamp.
MaxTime == 1

VARIABLES
    _client,        \* database.py:8   "None" or "MongoClient"
    _db,            \* database.py:9   "None" or the database handle
    opened,         \* the connect_db() calls that made a MongoClient (line 17) and saw
                    \* the connection check succeed (line 19)
    cpc,            \* position of each thread in its connect_db() call
    projects,       \* db.projects:    _id -> [name, start_date, end_date, created_at, updated_at]
    tasks,          \* db.tasks:       _id -> [project_id, name, estimated_hours, created_at,
                    \*                         updated_at, total_logged_minutes]
    time_logs,      \* db.time_logs:   _id -> [task_id, duration_minutes]
    next_oid,       \* the next ObjectId insert_one generates
    ret,            \* what the call that completed last returned: "True", "False", "None",
                    \* "ObjectId", or the name of the exception it raised
    rid,            \* the ObjectId that call returned, 0 when it returned none
    printed,        \* what that call printed: [what, n], its last message and the count
                    \* its messages report
    removed,        \* the _ids that call's delete_one / delete_many removed, by collection
    again,          \* that call was a delete of the document the call before it removed
    pc,             \* position of the delete_project run in progress, "idle" when there is none
    run_project_id, \* project_id of the delete_project run in progress
    task_ids,       \* task_ids of the delete_project run in progress (database.py:125)
    frame,          \* the desktop TaskFrame (ui/task_frame.py:10-13, 26-36):
                    \* [current_project_id, tasks, selected_task_id, add_button,
                    \*  edit_button, log_time_button, delete_button]; tasks holds the keys
                    \* of self.tasks, which are the keys of self.task_widgets too
    calls           \* per worker thread, its add_time_log or delete_task call in progress
                    \* between the two storage calls: [op, task_id, d, log], op "idle"
                    \* when the thread is in no call

vars == <<_client, _db, opened, cpc, projects, tasks, time_logs, next_oid, ret, rid, printed, removed, again,
         pc, run_project_id, task_ids, calls, frame>>

store == <<projects, tasks, time_logs>>
conn == <<_client, _db, opened, cpc>>
run == <<pc, run_project_id, task_ids, calls, frame>>

-----------------------------------------------------------------------------
\* Python values

None == <<>>
Some(v) == <<v>>

\* isinstance(x, ObjectId)
IsObjectId(x) == x >= 1

\* Division truncating toward zero, as int() truncates a float.
TruncDiv(a, b) == IF a >= 0 THEN a \div b ELSE -((-a) \div b)

\* int(v): the converted integer, or None where int() raises.
PyInt(v) ==
    CASE v.kind = "int"   -> Some(v.n)
      [] v.kind = "float" -> Some(TruncDiv(v.n, 10))
      [] v.kind = "str"   -> Some(v.n)
      [] OTHER            -> None

\* The exception int(v) raises where it raises.
PyIntError(v) ==
    CASE v.kind = "text" -> "ValueError"
      [] v.kind = "inf"  -> "OverflowError"
      [] OTHER           -> "TypeError"

\* float(v) in tenths, v finite, or None where float() raises.
PyFloat(v) ==
    CASE v.kind = "int"   -> Some(v.n * 10)
      [] v.kind = "float" -> Some(v.n)
      [] v.kind = "str"   -> Some(v.n * 10)
      [] OTHER            -> None

IsSpace(c) == c = " "

RECURSIVE lstrip(_)
lstrip(s) == IF s # <<>> /\ IsSpace(Head(s)) THEN lstrip(Tail(s)) ELSE s

RECURSIVE rstrip(_)
rstrip(s) ==
    IF s # <<>> /\ IsSpace(s[Len(s)]) THEN rstrip(SubSeq(s, 1, Len(s) - 1)) ELSE s

\* str.strip()
strip(s) == rstrip(lstrip(s))

-----------------------------------------------------------------------------
\* MongoDB collection operations

\* insert_one
InsertOne(coll, oid, doc) == coll @@ (oid :> doc)

\* delete_many / delete_one: the documents matching `gone` are removed
Without(coll, gone) == [x \in DOMAIN coll \ gone |-> coll[x]]

\* {"$set": updates} applied to one document
MongoSet(doc, updates) ==
    [k \in DOMAIN doc \cup DOMAIN updates |->
        IF k \in DOMAIN updates THEN updates[k] ELSE doc[k]]

\* The sum of duration_minutes over the logs in `ids`
RECURSIVE SumDurations(_, _)
SumDurations(logs, ids) ==
    IF ids = {} THEN 0
    ELSE LET l == CHOOSE x \in ids : TRUE
         IN logs[l].duration_minutes + SumDurations(logs, ids \ {l})

-----------------------------------------------------------------------------
\* Reads

get_project(project_id) ==
    IF project_id \in DOMAIN projects THEN Some(projects[project_id]) ELSE None

get_task(task_id) ==
    IF task_id \in DOMAIN tasks THEN Some(tasks[task_id]) ELSE None

\* The _ids of the logs get_time_logs_for_task returns
get_time_logs_for_task(task_id) ==
    {l \in DOMAIN time_logs : time_logs[l].task_id = task_id}

get_total_logged_time_for_task(task_id) ==
    SumDurations(time_logs, get_time_logs_for_task(task_id))

Silent == [what |-> "", n |-> 0]

\* TaskFrame with no project loaded: __init__ (ui/task_frame.py:10-36) and
\* clear_tasks (155-174)
NoProject ==
    [current_project_id |-> 0, tasks |-> {}, selected_task_id |-> 0,
     add_button |-> "disabled", edit_button |-> "disabled",
     log_time_button |-> "disabled", delete_button |-> "disabled"]

\* A worker thread that is in no call
Idle == [op |-> "idle", task_id |-> 0, d |-> 0, log |-> 0]

Nothing == [projects |-> {}, tasks |-> {}, time_logs |-> {}]

\* The exceptions the handlers raise
NotConnected == "ConnectionError: Database is not connected."
CannotConnect == "ConnectionError: Could not connect to MongoDB"
UnexpectedError == "ConnectionError: Unexpected error connecting to MongoDB"
BadProjectId == "ValueError: project_id must be an ObjectId"
BadTaskId == "ValueError: task_id must be an ObjectId"
BadDate == "ValueError: Invalid date format"
BadHours == "ValueError: Invalid value for estimated_hours"
BadLogDate == "ValueError: Invalid log_date provided."
BadDuration == "ValueError: Invalid duration provided (must be a positive integer)."
Overflow == "OverflowError: cannot convert float infinity to integer"

ValueErrors == {BadProjectId, BadTaskId, BadDate, BadHours, BadLogDate, BadDuration}

-----------------------------------------------------------------------------
Init ==
    /\ _client = "None"
    /\ _db = "None"
    /\ opened = 0
    /\ cpc = [th \in 1 .. MaxThreads |-> "start"]
    /\ projects = <<>>
    /\ tasks = <<>>
    /\ time_logs = <<>>
    /\ next_oid = 1
    /\ ret = "None"
    /\ rid = 0
    /\ printed = Silent
    /\ removed = Nothing
    /\ again = FALSE
    /\ pc = "idle"
    /\ run_project_id = 0
    /\ task_ids = {}
    /\ calls = [w \in 1 .. MaxCalls |-> Idle]
    /\ frame = NoProject

\* A call returns `value`, or raises the exception of that name and message.
Returns(value, oid) ==
    /\ ret' = value
    /\ rid' = oid

\* The call's last print: "Deleted project", "Deleted task", "Added time log" or the
\* warning that follows it (database.py:130-138, 217-221, 269-281), or nothing.
Prints(what, n) == printed' = [what |-> what, n |-> n]

\* The call prints nothing and deletes nothing.
Quiet ==
    /\ printed' = Silent
    /\ removed' = Nothing
    /\ again' = FALSE

\* The documents the call's delete_one / delete_many removed.
Removes(ps, ts, ls) == removed' = [projects |-> ps, tasks |-> ts, time_logs |-> ls]

\* A call raises before it reaches storage.
Raises(exc) ==
    /\ Returns(exc, 0)
    /\ Quiet
    /\ UNCHANGED <<conn, store, next_oid, run>>

\* datetime.now() returns `now`: the clock never runs behind a stored timestamp.
Stamps ==
    {projects[p].created_at : p \in DOMAIN projects}
        \cup {projects[p].updated_at : p \in DOMAIN projects}
        \cup {tasks[t].created_at : t \in DOMAIN tasks}
        \cup {tasks[t].updated_at : t \in DOMAIN tasks}

ClockReads(now) == \A s \in Stamps : s <= now

-----------------------------------------------------------------------------
\* Connection

connect_db_reconnects(server_up) ==
    /\ pc = "idle"
    /\ IF server_up
       THEN /\ _client' = "MongoClient"
            /\ _db' = "project_tracker_db"
            /\ opened' = opened + 1
            /\ cpc' = cpc
            /\ Returns("None", 0)
       ELSE /\ _client' = "None"
            /\ _db' = "None"
            /\ UNCHANGED <<opened, cpc>>
            /\ Returns(CannotConnect, 0)
    /\ Quiet
    /\ UNCHANGED <<store, next_oid, run>>

connect_db(server_up) ==
    /\ pc = "idle"
    /\ IF _client # "None"
       THEN /\ Returns("None", 0)
            /\ UNCHANGED conn
       ELSE IF server_up
       THEN /\ _client' = "MongoClient"
            /\ _db' = "project_tracker_db"
            /\ opened' = opened + 1
            /\ cpc' = cpc
            /\ Returns("None", 0)
       ELSE /\ _client' = "None"
            /\ _db' = "None"
            /\ UNCHANGED <<opened, cpc>>
            /\ Returns(CannotConnect, 0)
    /\ Quiet
    /\ UNCHANGED <<store, next_oid, run>>

\* get_db() returns the handle; it raises ConnectionError when _db is None.
get_db == _db

\* get_db() as a call of its own.  `server_up` says whether the server can be reached
\* at that moment; the code does not look.
call_get_db(server_up) ==
    /\ pc = "idle"
    /\ IF _db = "None"
       THEN Raises(NotConnected)
       ELSE /\ Returns("handle", 0)
            /\ Quiet
            /\ UNCHANGED <<conn, store, next_oid, run>>

\* connect_db() run by thread th, one step per statement that reads or writes the
\* globals.  Line 14: the test of _client.
connect_db_test(th) ==
    /\ cpc[th] = "start"
    /\ IF _client = "None"
       THEN /\ cpc' = [cpc EXCEPT ![th] = "MongoClient"]
            /\ UNCHANGED <<ret, rid>>
       ELSE /\ cpc' = [cpc EXCEPT ![th] = "done"]
            /\ Returns("None", 0)
    /\ UNCHANGED <<_client, _db, opened, store, next_oid, printed, removed, again, run>>

\* Line 17: _client = MongoClient(...)
connect_db_client(th) ==
    /\ cpc[th] = "MongoClient"
    /\ _client' = "MongoClient"
    /\ cpc' = [cpc EXCEPT ![th] = "ismaster"]
    /\ UNCHANGED <<_db, opened, store, next_oid, ret, rid, printed, removed, again, run>>

\* Lines 33-48: every handler forgets the client and the handle and raises ConnectionError
connect_db_except(th, exc) ==
    /\ _client' = "None"
    /\ _db' = "None"
    /\ cpc' = [cpc EXCEPT ![th] = "done"]
    /\ opened' = opened
    /\ Returns(exc, 0)

\* Line 19: the connection check on the client the global holds at that moment, which
\* is None when another thread's handler has run since line 17
connect_db_ismaster(th, server_up) ==
    /\ cpc[th] = "ismaster"
    /\ IF _client = "None"
       THEN connect_db_except(th, UnexpectedError)
       ELSE IF server_up
       THEN /\ opened' = opened + 1
            /\ cpc' = [cpc EXCEPT ![th] = "_db"]
            /\ UNCHANGED <<_client, _db, ret, rid>>
       ELSE connect_db_except(th, CannotConnect)
    /\ UNCHANGED <<store, next_oid, printed, removed, again, run>>

\* Line 20: _db = _client[DATABASE_NAME], again on the client the global holds
connect_db_db(th) ==
    /\ cpc[th] = "_db"
    /\ IF _client = "None"
       THEN connect_db_except(th, UnexpectedError)
       ELSE /\ _db' = "project_tracker_db"
            /\ cpc' = [cpc EXCEPT ![th] = "create_index"]
            /\ UNCHANGED <<_client, opened, ret, rid>>
    /\ UNCHANGED <<store, next_oid, printed, removed, again, run>>

IndexesEnsured == "Database indexes ensured."
IndexWarning == "Warning: Could not ensure indexes"

\* Lines 24-31 with the inner try removed: a create_index that raises reaches the
\* handler of lines 44-48
connect_db_indexes_fatal(th, index_ok) ==
    /\ cpc[th] = "create_index"
    /\ IF index_ok
       THEN /\ Prints(IndexesEnsured, 0)
            /\ cpc' = [cpc EXCEPT ![th] = "done"]
            /\ Returns("None", 0)
            /\ UNCHANGED <<_client, _db, opened>>
       ELSE /\ connect_db_except(th, UnexpectedError)
            /\ printed' = printed
    /\ UNCHANGED <<store, next_oid, removed, again, run>>

\* Lines 24-31: the four create_index calls inside their own try; one that raises is
\* caught there and reported by a warning, and connect_db() returns
connect_db_indexes(th, index_ok) ==
    /\ cpc[th] = "create_index"
    /\ Prints(IF index_ok THEN IndexesEnsured ELSE IndexWarning, 0)
    /\ cpc' = [cpc EXCEPT ![th] = "done"]
    /\ Returns("None", 0)
    /\ UNCHANGED <<_client, _db, opened, store, next_oid, removed, again, run>>

-----------------------------------------------------------------------------
\* Project operations

add_project(name, start_date, end_date, now1, now2) ==
    /\ pc = "idle"
    /\ IF get_db = "None"
       THEN Raises(NotConnected)
       ELSE /\ next_oid <= MaxOids
            /\ ClockReads(now1)
            /\ now1 <= now2
            /\ projects' = InsertOne(projects, next_oid,
                    [name |-> name, start_date |-> start_date, end_date |-> end_date,
                     created_at |-> now1, updated_at |-> now2])
            /\ next_oid' = next_oid + 1
            /\ Returns("ObjectId", next_oid)
            /\ Quiet
            /\ UNCHANGED <<conn, tasks, time_logs, run>>

\* strptime(value, '%Y-%m-%d') of a date field of `updates`: a datetime is kept,
\* a string in the format is parsed, any other string raises ValueError (None here).
DateOf(v) ==
    CASE v.kind = "datetime" -> Some(v.n)
      [] v.kind = "str"      -> Some(v.n)
      [] OTHER               -> None

\* The date fields of `updates` fail to convert (database.py:99-107, 188-192).
BadDates(updates, keys) ==
    \E k \in keys \cap DOMAIN updates :
        updates[k].kind # "None" /\ DateOf(updates[k]) = None

\* `updates` with its date fields converted to what is stored.
WithDates(updates, keys) ==
    [k \in DOMAIN updates |->
        IF k \in keys
        THEN (IF updates[k].kind = "None" THEN None ELSE DateOf(updates[k]))
        ELSE updates[k]]

\* update_one(...).modified_count
ModifiedCount(old, new) == IF old # new THEN 1 ELSE 0

\* The document {"$set": updates} writes, with updated_at refreshed (database.py:110, 202).
Stamped(updates, now) ==
    [k \in DOMAIN updates \cup {"updated_at"} |->
        IF k = "updated_at" THEN now ELSE updates[k]]

update_project(project_id, updates, now) ==
    /\ pc = "idle"
    /\ IF get_db = "None"
       THEN Raises(NotConnected)
       ELSE IF ~IsObjectId(project_id)
       THEN Raises(BadProjectId)
       ELSE IF BadDates(updates, {"start_date", "end_date"})
       THEN Raises(BadDate)
       ELSE /\ ClockReads(now)
            /\ IF project_id \in DOMAIN projects
               THEN LET new == MongoSet(projects[project_id],
                                Stamped(WithDates(updates, {"start_date", "end_date"}), now))
                    IN /\ projects' = [projects EXCEPT ![project_id] = new]
                       /\ Returns(IF ModifiedCount(projects[project_id], new) > 0
                                  THEN "True" ELSE "False", 0)
               ELSE /\ projects' = projects
                    /\ Returns("False", 0)
            /\ Quiet
            /\ UNCHANGED <<conn, tasks, time_logs, next_oid, run>>

\* The tasks db.tasks.find({"project_id": project_id}) returns (database.py:124-125)
TasksOfProject(project_id) ==
    {t \in DOMAIN tasks : tasks[t].project_id = project_id}

\* The logs {"task_id": {"$in": ids}} matches (database.py:129, 216)
LogsOfTasks(ids) == {l \in DOMAIN time_logs : time_logs[l].task_id \in ids}

\* delete_project, one step per storage call.  Every storage call may raise (the
\* server is lost); delete_project catches nothing, so the run ends there.
delete_project_find(project_id) ==
    /\ pc = "idle"
    /\ IF get_db = "None"
       THEN Raises(NotConnected)
       ELSE IF ~IsObjectId(project_id)
       THEN Raises(BadProjectId)
       ELSE /\ run_project_id' = project_id
            /\ task_ids' = TasksOfProject(project_id)
            /\ pc' = IF TasksOfProject(project_id) # {} THEN "delete_logs" ELSE "delete_project"
            /\ removed' = Nothing
            /\ again' = (project_id \in removed.projects)
            /\ UNCHANGED <<conn, store, next_oid, ret, rid, printed, calls, frame>>

\* delete_many on tasks filtered by the _ids found at line 125, not by project_id
delete_project_tasks_found ==
    /\ pc = "delete_tasks"
    /\ tasks' = Without(tasks, task_ids)
    /\ Prints("Deleted tasks", Cardinality(task_ids))
    /\ Removes(removed.projects, task_ids \cap DOMAIN tasks, removed.time_logs)
    /\ pc' = "delete_project"
    /\ UNCHANGED <<conn, projects, time_logs, next_oid, ret, rid, again, run_project_id, task_ids, calls, frame>>

\* The cascade in the reverse order: the project document goes first
delete_project_document_first ==
    /\ pc = "delete_logs"
    /\ projects' = Without(projects, {run_project_id})
    /\ time_logs' = Without(time_logs, LogsOfTasks(task_ids))
    /\ Prints("Deleted time logs", Cardinality(task_ids))
    /\ Removes({run_project_id} \cap DOMAIN projects, {}, LogsOfTasks(task_ids))
    /\ pc' = "delete_tasks"
    /\ UNCHANGED <<conn, tasks, next_oid, ret, rid, again, run_project_id, task_ids, calls, frame>>

delete_project_logs ==
    /\ pc = "delete_logs"
    /\ time_logs' = Without(time_logs, LogsOfTasks(task_ids))
    /\ Prints("Deleted time logs", Cardinality(task_ids))
    /\ Removes({}, {}, LogsOfTasks(task_ids))
    /\ pc' = "delete_tasks"
    /\ UNCHANGED <<conn, projects, tasks, next_oid, ret, rid, again, run_project_id, task_ids, calls, frame>>

delete_project_tasks ==
    /\ pc = "delete_tasks"
    /\ tasks' = Without(tasks, TasksOfProject(run_project_id))
    /\ Prints("Deleted tasks", Cardinality(task_ids))
    /\ Removes(removed.projects, TasksOfProject(run_project_id), removed.time_logs)
    /\ pc' = "delete_project"
    /\ UNCHANGED <<conn, projects, time_logs, next_oid, ret, rid, again, run_project_id, task_ids, calls, frame>>

delete_project_document ==
    /\ pc = "delete_project"
    /\ projects' = Without(projects, {run_project_id})
    /\ Returns(IF run_project_id \in DOMAIN projects THEN "True" ELSE "False", 0)
    /\ Prints("Deleted project", Cardinality(task_ids))
    /\ Removes(removed.projects \cup ({run_project_id} \cap DOMAIN projects),
               removed.tasks, removed.time_logs)
    /\ pc' = "idle"
    /\ UNCHANGED <<conn, tasks, time_logs, next_oid, again, run_project_id, task_ids, calls, frame>>

delete_project_fails ==
    /\ pc # "idle"
    /\ Returns("PyMongoError", 0)
    /\ pc' = "idle"
    /\ UNCHANGED <<conn, store, next_oid, printed, removed, again, run_project_id, task_ids, calls, frame>>

\* delete_project with line 129 left out: the tasks go, their time logs stay
delete_project_keeps_logs(project_id) ==
    /\ pc = "idle"
    /\ IF get_db = "None"
       THEN Raises(NotConnected)
       ELSE IF ~IsObjectId(project_id)
       THEN Raises(BadProjectId)
       ELSE /\ tasks' = Without(tasks, TasksOfProject(project_id))
            /\ projects' = Without(projects, {project_id})
            /\ Returns(IF project_id \in DOMAIN projects THEN "True" ELSE "False", 0)
            /\ Prints("Deleted project", Cardinality(TasksOfProject(project_id)))
            /\ again' = (project_id \in removed.projects)
            /\ Removes({project_id} \cap DOMAIN projects, TasksOfProject(project_id), {})
            /\ UNCHANGED <<conn, time_logs, next_oid, run>>

\* delete_project returning result.acknowledged, which is always true
delete_project_acknowledged(project_id) ==
    /\ pc = "idle"
    /\ IF get_db = "None"
       THEN Raises(NotConnected)
       ELSE IF ~IsObjectId(project_id)
       THEN Raises(BadProjectId)
       ELSE /\ time_logs' = Without(time_logs, LogsOfTasks(TasksOfProject(project_id)))
            /\ tasks' = Without(tasks, TasksOfProject(project_id))
            /\ projects' = Without(projects, {project_id})
            /\ Returns("True", 0)
            /\ Prints("Deleted project", Cardinality(TasksOfProject(project_id)))
            /\ again' = (project_id \in removed.projects)
            /\ Removes({project_id} \cap DOMAIN projects, TasksOfProject(project_id),
                       LogsOfTasks(TasksOfProject(project_id)))
            /\ UNCHANGED <<conn, next_oid, run>>

\* delete_project whose delete_many on tasks has an empty filter
delete_project_all_tasks(project_id) ==
    /\ pc = "idle"
    /\ IF get_db = "None"
       THEN Raises(NotConnected)
       ELSE IF ~IsObjectId(project_id)
       THEN Raises(BadProjectId)
       ELSE LET ids == TasksOfProject(project_id)
            IN /\ time_logs' = IF ids # {} THEN Without(time_logs, LogsOfTasks(ids))
                                            ELSE time_logs
               /\ tasks' = IF ids # {} THEN <<>> ELSE tasks
               /\ projects' = Without(projects, {project_id})
               /\ Returns(IF project_id \in DOMAIN projects THEN "True" ELSE "False", 0)
               /\ Prints("Deleted project", Cardinality(ids))
               /\ again' = (project_id \in removed.projects)
               /\ Removes({project_id} \cap DOMAIN projects, DOMAIN tasks, LogsOfTasks(ids))
               /\ UNCHANGED <<conn, next_oid, run>>

\* delete_project as one call that no other call interleaves with
delete_project(project_id) ==
    /\ pc = "idle"
    /\ IF get_db = "None"
       THEN Raises(NotConnected)
       ELSE IF ~IsObjectId(project_id)
       THEN Raises(BadProjectId)
       ELSE LET ids == TasksOfProject(project_id)
            IN /\ time_logs' = IF ids # {} THEN Without(time_logs, LogsOfTasks(ids))
                                            ELSE time_logs
               /\ tasks' = IF ids # {} THEN Without(tasks, TasksOfProject(project_id))
                                        ELSE tasks
               /\ projects' = Without(projects, {project_id})
               /\ Returns(IF project_id \in DOMAIN projects THEN "True" ELSE "False", 0)
               /\ Prints("Deleted project", Cardinality(ids))
               /\ again' = (project_id \in removed.projects)
               /\ Removes({project_id} \cap DOMAIN projects, ids, LogsOfTasks(ids))
               /\ UNCHANGED <<conn, next_oid, run>>

-----------------------------------------------------------------------------
\* Task operations

\* add_task, which makes one storage call, while other calls may be in progress
add_task_insert_one(project_id, name, estimated_hours, now1, now2) ==
    /\ IF get_db = "None"
       THEN Raises(NotConnected)
       ELSE IF ~IsObjectId(project_id)
       THEN Raises(BadProjectId)
       ELSE /\ next_oid <= MaxOids
            /\ ClockReads(now1)
            /\ now1 <= now2
            /\ tasks' = InsertOne(tasks, next_oid,
                    [project_id |-> project_id, name |-> name,
                     estimated_hours |-> estimated_hours,
                     created_at |-> now1, updated_at |-> now2,
                     total_logged_minutes |-> 0])
            /\ next_oid' = next_oid + 1
            /\ Returns("ObjectId", next_oid)
            /\ Quiet
            /\ UNCHANGED <<conn, projects, time_logs, run>>

\* add_task as a call that runs during no delete_project
add_task(project_id, name, estimated_hours, now1, now2) ==
    /\ pc = "idle"
    /\ add_task_insert_one(project_id, name, estimated_hours, now1, now2)

\* `updates` with estimated_hours converted by float() (database.py:195-197)
WithHours(updates) ==
    [k \in DOMAIN updates |->
        IF k = "estimated_hours"
        THEN (IF updates[k].kind = "None" THEN None ELSE PyFloat(updates[k]))
        ELSE updates[k]]

\* update_task raising when no task matches, where the code returns False
update_task_raises_not_found(task_id, updates, now) ==
    /\ pc = "idle"
    /\ IF get_db = "None"
       THEN Raises(NotConnected)
       ELSE IF ~IsObjectId(task_id)
       THEN Raises(BadTaskId)
       ELSE IF task_id \notin DOMAIN tasks
       THEN Raises("LookupError: no such task")
       ELSE /\ tasks' = [tasks EXCEPT ![task_id] =
                            MongoSet(@, Stamped(WithHours(WithDates(updates, {"due_date"})), now))]
            /\ Returns("True", 0)
            /\ Quiet
            /\ UNCHANGED <<conn, projects, time_logs, next_oid, run>>

update_task(task_id, updates, now) ==
    /\ pc = "idle"
    /\ IF get_db = "None"
       THEN Raises(NotConnected)
       ELSE IF ~IsObjectId(task_id)
       THEN Raises(BadTaskId)
       ELSE IF BadDates(updates, {"due_date"})
       THEN Raises(BadDate)
       ELSE IF /\ "estimated_hours" \in DOMAIN updates
               /\ updates["estimated_hours"].kind # "None"
               /\ PyFloat(updates["estimated_hours"]) = None
       THEN Raises(BadHours)
       ELSE /\ ClockReads(now)
            /\ IF task_id \in DOMAIN tasks
               THEN LET new == MongoSet(tasks[task_id],
                                Stamped(WithHours(WithDates(updates, {"due_date"})), now))
                    IN /\ tasks' = [tasks EXCEPT ![task_id] = new]
                       /\ Returns(IF ModifiedCount(tasks[task_id], new) > 0
                                  THEN "True" ELSE "False", 0)
               ELSE /\ tasks' = tasks
                    /\ Returns("False", 0)
            /\ Quiet
            /\ UNCHANGED <<conn, projects, time_logs, next_oid, run>>

\* delete_task returning early when the task is not found, its logs untouched
delete_task_if_found(task_id) ==
    /\ pc = "idle"
    /\ IF get_db = "None"
       THEN Raises(NotConnected)
       ELSE IF ~IsObjectId(task_id)
       THEN Raises(BadTaskId)
       ELSE /\ time_logs' = IF task_id \in DOMAIN tasks
                            THEN Without(time_logs, LogsOfTasks({task_id}))
                            ELSE time_logs
            /\ tasks' = Without(tasks, {task_id})
            /\ Returns(IF task_id \in DOMAIN tasks THEN "True" ELSE "False", 0)
            /\ Prints("Deleted task", Cardinality(LogsOfTasks({task_id})))
            /\ again' = (task_id \in removed.tasks)
            /\ Removes({}, {task_id} \cap DOMAIN tasks,
                       IF task_id \in DOMAIN tasks THEN LogsOfTasks({task_id}) ELSE {})
            /\ UNCHANGED <<conn, projects, next_oid, run>>

delete_task(task_id) ==
    /\ pc = "idle"
    /\ IF get_db = "None"
       THEN Raises(NotConnected)
       ELSE IF ~IsObjectId(task_id)
       THEN Raises(BadTaskId)
       ELSE /\ time_logs' = Without(time_logs, LogsOfTasks({task_id}))
            /\ tasks' = Without(tasks, {task_id})
            /\ Returns(IF task_id \in DOMAIN tasks THEN "True" ELSE "False", 0)
            /\ Prints("Deleted task", Cardinality(LogsOfTasks({task_id})))
            /\ again' = (task_id \in removed.tasks)
            /\ Removes({}, {task_id} \cap DOMAIN tasks, LogsOfTasks({task_id}))
            /\ UNCHANGED <<conn, projects, next_oid, run>>

-----------------------------------------------------------------------------
\* Time log operations

\* "$set" written for "$inc": the total becomes the last duration
SetTotal(task_id, d) ==
    IF task_id \in DOMAIN tasks
    THEN [tasks EXCEPT ![task_id].total_logged_minutes = d]
    ELSE tasks

\* "$inc" by update_many with the filter {"project_id": ...}: every task of the
\* task's project is incremented
IncTotalOfProject(task_id, d) ==
    IF task_id \in DOMAIN tasks
    THEN [t \in DOMAIN tasks |->
            IF tasks[t].project_id = tasks[task_id].project_id
            THEN [tasks[t] EXCEPT !.total_logged_minutes = @ + d]
            ELSE tasks[t]]
    ELSE tasks

\* {"$inc": {"total_logged_minutes": d}} on the task matching task_id, if any
IncTotal(task_id, d) ==
    IF task_id \in DOMAIN tasks
    THEN [tasks EXCEPT ![task_id].total_logged_minutes = @ + d]
    ELSE tasks

\* The warning add_time_log prints when its update_one matched no task (line 279)
TaskNotFound == "Warning: Task not found when trying to update total logged time"

\* log_date is None, a date or a datetime; anything else raises (database.py:236-250)
LogDateOk(log_date) == log_date \in {"None", "date", "datetime"}

\* add_time_log without the isinstance check of lines 233-234
add_time_log_unchecked(task_id, duration_minutes, log_date) ==
    /\ pc = "idle"
    /\ IF get_db = "None"
       THEN Raises(NotConnected)
       ELSE IF ~LogDateOk(log_date)
       THEN Raises(BadLogDate)
       ELSE IF PyInt(duration_minutes) = None \/ PyInt(duration_minutes)[1] <= 0
       THEN Raises(BadDuration)
       ELSE LET d == PyInt(duration_minutes)[1]
            IN /\ next_oid <= MaxOids
               /\ time_logs' = InsertOne(time_logs, next_oid,
                        [task_id |-> task_id, duration_minutes |-> d])
               /\ next_oid' = next_oid + 1
               /\ tasks' = IncTotal(task_id, d)
               /\ Returns("ObjectId", next_oid)
               /\ Prints(IF task_id \in DOMAIN tasks THEN "Added time log" ELSE TaskNotFound, 0)
               /\ removed' = Nothing
               /\ again' = FALSE
               /\ UNCHANGED <<conn, projects, run>>

\* add_time_log as an upsert: a second log of a task is added to the minutes of its
\* first log, no document is inserted
add_time_log_upsert(task_id, duration_minutes, log_date) ==
    /\ pc = "idle"
    /\ IF get_db = "None"
       THEN Raises(NotConnected)
       ELSE IF ~IsObjectId(task_id)
       THEN Raises(BadTaskId)
       ELSE IF ~LogDateOk(log_date)
       THEN Raises(BadLogDate)
       ELSE IF PyInt(duration_minutes) = None \/ PyInt(duration_minutes)[1] <= 0
       THEN Raises(BadDuration)
       ELSE LET d == PyInt(duration_minutes)[1]
                old == get_time_logs_for_task(task_id)
            IN /\ next_oid <= MaxOids
               /\ IF old = {}
                  THEN /\ time_logs' = InsertOne(time_logs, next_oid,
                                [task_id |-> task_id, duration_minutes |-> d])
                       /\ next_oid' = next_oid + 1
                       /\ Returns("ObjectId", next_oid)
                  ELSE LET l == CHOOSE x \in old : TRUE
                       IN /\ time_logs' = [time_logs EXCEPT ![l].duration_minutes = @ + d]
                          /\ next_oid' = next_oid
                          /\ Returns("ObjectId", l)
               /\ tasks' = IncTotal(task_id, d)
               /\ Prints(IF task_id \in DOMAIN tasks THEN "Added time log" ELSE TaskNotFound, 0)
               /\ removed' = Nothing
               /\ again' = FALSE
               /\ UNCHANGED <<conn, projects, run>>

add_time_log(task_id, duration_minutes, log_date) ==
    /\ pc = "idle"
    /\ IF get_db = "None"
       THEN Raises(NotConnected)
       ELSE IF ~IsObjectId(task_id)
       THEN Raises(BadTaskId)
       ELSE IF ~LogDateOk(log_date)
       THEN Raises(BadLogDate)
       ELSE IF PyInt(duration_minutes) = None
                /\ PyIntError(duration_minutes) \notin {"ValueError", "TypeError"}
       THEN Raises(Overflow)
       ELSE IF PyInt(duration_minutes) = None \/ PyInt(duration_minutes)[1] <= 0
       THEN Raises(BadDuration)
       ELSE LET d == PyInt(duration_minutes)[1]
            IN /\ next_oid <= MaxOids
               /\ time_logs' = InsertOne(time_logs, next_oid,
                        [task_id |-> task_id, duration_minutes |-> d])
               /\ next_oid' = next_oid + 1
               /\ tasks' = IncTotal(task_id, d)
               /\ Returns("ObjectId", next_oid)
               /\ Prints(IF task_id \in DOMAIN tasks THEN "Added time log" ELSE TaskNotFound, 0)
               /\ removed' = Nothing
               /\ again' = FALSE
               /\ UNCHANGED <<conn, projects, run>>

-----------------------------------------------------------------------------
\* add_time_log and delete_task run by worker thread w, one step per storage call.
\* A step records what it prints; the step that ends the call records what it returns.

\* add_time_log, lines 230-269: the checks and insert_one
add_time_log_insert(w, task_id, duration_minutes, log_date) ==
    /\ calls[w] = Idle
    /\ IF get_db = "None"
       THEN Raises(NotConnected)
       ELSE IF ~IsObjectId(task_id)
       THEN Raises(BadTaskId)
       ELSE IF ~LogDateOk(log_date)
       THEN Raises(BadLogDate)
       ELSE IF PyInt(duration_minutes) = None
                /\ PyIntError(duration_minutes) \notin {"ValueError", "TypeError"}
       THEN Raises(Overflow)
       ELSE IF PyInt(duration_minutes) = None \/ PyInt(duration_minutes)[1] <= 0
       THEN Raises(BadDuration)
       ELSE LET d == PyInt(duration_minutes)[1]
            IN /\ next_oid <= MaxOids
               /\ time_logs' = InsertOne(time_logs, next_oid,
                        [task_id |-> task_id, duration_minutes |-> d])
               /\ next_oid' = next_oid + 1
               /\ Prints("Added time log", 0)
               /\ calls' = [calls EXCEPT ![w] =
                        [op |-> "add_time_log", task_id |-> task_id, d |-> d, log |-> next_oid]]
               /\ UNCHANGED <<conn, projects, tasks, ret, rid, removed, again,
                              pc, run_project_id, task_ids, frame>>

\* The increment undone when no task matched: the log is deleted again and the call
\* raises
add_time_log_inc_rollback(w) ==
    /\ calls[w].op = "add_time_log"
    /\ IF calls[w].task_id \in DOMAIN tasks
       THEN /\ tasks' = IncTotal(calls[w].task_id, calls[w].d)
            /\ Returns("ObjectId", calls[w].log)
            /\ UNCHANGED <<time_logs, printed>>
       ELSE /\ time_logs' = Without(time_logs, {calls[w].log})
            /\ Returns("LookupError: no such task", 0)
            /\ Prints(TaskNotFound, 0)
            /\ tasks' = tasks
    /\ calls' = [calls EXCEPT ![w] = Idle]
    /\ UNCHANGED <<conn, projects, next_oid, removed, again, pc, run_project_id, task_ids, frame>>

\* The increment given up when another add_time_log on the same task is in progress
add_time_log_inc_unless_contended(w) ==
    /\ calls[w].op = "add_time_log"
    /\ tasks' = IF \E v \in DOMAIN calls :
                        /\ v # w
                        /\ calls[v].op = "add_time_log"
                        /\ calls[v].task_id = calls[w].task_id
                THEN tasks
                ELSE IncTotal(calls[w].task_id, calls[w].d)
    /\ IF calls[w].task_id \in DOMAIN tasks
       THEN printed' = printed
       ELSE Prints(TaskNotFound, 0)
    /\ Returns("ObjectId", calls[w].log)
    /\ calls' = [calls EXCEPT ![w] = Idle]
    /\ UNCHANGED <<conn, projects, time_logs, next_oid, removed, again,
                   pc, run_project_id, task_ids, frame>>

\* add_time_log, lines 272-284: update_one with "$inc", the warning when it matched
\* no task, and the return of the inserted id
add_time_log_inc(w) ==
    /\ calls[w].op = "add_time_log"
    /\ tasks' = IncTotal(calls[w].task_id, calls[w].d)
    /\ IF calls[w].task_id \in DOMAIN tasks
       THEN printed' = printed
       ELSE Prints(TaskNotFound, 0)
    /\ Returns("ObjectId", calls[w].log)
    /\ calls' = [calls EXCEPT ![w] = Idle]
    /\ UNCHANGED <<conn, projects, time_logs, next_oid, removed, again,
                   pc, run_project_id, task_ids, frame>>

\* delete_task, lines 209-217: the checks and delete_many on time_logs
delete_task_logs(w, task_id) ==
    /\ calls[w] = Idle
    /\ IF get_db = "None"
       THEN Raises(NotConnected)
       ELSE IF ~IsObjectId(task_id)
       THEN Raises(BadTaskId)
       ELSE /\ time_logs' = Without(time_logs, LogsOfTasks({task_id}))
            /\ Prints("Deleted time logs", Cardinality(LogsOfTasks({task_id})))
            /\ calls' = [calls EXCEPT ![w] =
                    [op |-> "delete_task", task_id |-> task_id, d |-> 0, log |-> 0]]
            /\ UNCHANGED <<conn, projects, tasks, next_oid, ret, rid, removed, again,
                           pc, run_project_id, task_ids, frame>>

\* delete_task, lines 220-225: delete_one on tasks and the return
delete_task_document(w) ==
    /\ calls[w].op = "delete_task"
    /\ tasks' = Without(tasks, {calls[w].task_id})
    /\ Prints("Deleted task", 0)
    /\ Returns(IF calls[w].task_id \in DOMAIN tasks THEN "True" ELSE "False", 0)
    /\ calls' = [calls EXCEPT ![w] = Idle]
    /\ UNCHANGED <<conn, projects, time_logs, next_oid, removed, again,
                   pc, run_project_id, task_ids, frame>>

-----------------------------------------------------------------------------
\* The desktop TaskFrame (ui/task_frame.py).  A handler runs on the one UI thread,
\* from the click to its return, as one step; ret, rid and printed record the outcome
\* of the store call it makes to write (add_task, update_task, add_time_log).

\* What no TaskFrame handler writes
backstage == <<conn, pc, run_project_id, task_ids, calls>>

\* _update_button_states (lines 176-184)
UpdateButtonStates(f) ==
    LET state == IF f.selected_task_id # 0 THEN "normal" ELSE "disabled"
    IN [f EXCEPT !.edit_button = state,
                 !.delete_button = state,
                 !.log_time_button = state,
                 !.add_button = IF f.current_project_id # 0 THEN "normal" ELSE "disabled"]

\* load_tasks(project_id, ...) (lines 63-98) where db.tasks holds db_tasks: the frame
\* it leaves.  None is 0.  get_tasks_for_project raising ends in clear_tasks().
LoadTasks(project_id, db_tasks) ==
    IF project_id = 0 \/ get_db = "None" \/ ~IsObjectId(project_id)
    THEN NoProject
    ELSE UpdateButtonStates(
            [current_project_id |-> project_id,
             tasks |-> {t \in DOMAIN db_tasks : db_tasks[t].project_id = project_id},
             selected_task_id |-> 0,
             add_button |-> "normal", edit_button |-> frame.edit_button,
             log_time_button |-> frame.log_time_button,
             delete_button |-> frame.delete_button])

\* select_task(task_id) (lines 128-144) on frame f
SelectTask(f, task_id) ==
    IF f.selected_task_id = task_id
    THEN f
    ELSE UpdateButtonStates([f EXCEPT !.selected_task_id = task_id])

\* estimated_hours of a TaskDialog result as add_task stores it
DialogHours(v) == IF v.kind = "None" THEN None ELSE PyFloat(v)

\* AppWindow.on_project_selected (ui/app_window.py:46-53): load_tasks(project_id, name)
TaskFrame_load_tasks(project_id) ==
    /\ pc = "idle"
    /\ frame' = LoadTasks(project_id, tasks)
    /\ UNCHANGED <<backstage, store, next_oid, ret, rid, printed, removed, again>>

\* A click on the row of a displayed task (lines 107, 123)
TaskFrame_select_task(task_id) ==
    /\ pc = "idle"
    /\ task_id \in frame.tasks
    /\ frame' = SelectTask(frame, task_id)
    /\ UNCHANGED <<backstage, store, next_oid, ret, rid, printed, removed, again>>

\* add_task (lines 186-202), the dialog closed with `result`
TaskFrame_add_task(result, now1, now2) ==
    /\ pc = "idle"
    /\ frame.current_project_id # 0
    /\ IF get_db = "None"
       THEN /\ Returns(NotConnected, 0)
            /\ UNCHANGED <<store, next_oid, frame>>
       ELSE /\ next_oid <= MaxOids
            /\ ClockReads(now1)
            /\ now1 <= now2
            /\ tasks' = InsertOne(tasks, next_oid,
                    [project_id |-> frame.current_project_id, name |-> result.name,
                     estimated_hours |-> DialogHours(result.estimated_hours),
                     created_at |-> now1, updated_at |-> now2,
                     total_logged_minutes |-> 0])
            /\ next_oid' = next_oid + 1
            /\ Returns("ObjectId", next_oid)
            /\ frame' = SelectTask(LoadTasks(frame.current_project_id, tasks'), next_oid)
            /\ UNCHANGED <<projects, time_logs>>
    /\ Quiet
    /\ UNCHANGED backstage

\* The frame after the reload and the re-selection of lines 221-223 and 261-263:
\* select_task is handed self.selected_task_id as load_tasks has left it
Reselected(db_tasks) ==
    LET loaded == LoadTasks(frame.current_project_id, db_tasks)
    IN SelectTask(loaded, loaded.selected_task_id)

\* edit_task (lines 204-227), the dialog closed with `result`
TaskFrame_edit_task(result, now) ==
    /\ pc = "idle"
    /\ frame.selected_task_id # 0
    /\ IF frame.selected_task_id \notin frame.tasks
       THEN /\ frame' = LoadTasks(frame.current_project_id, tasks)
            /\ UNCHANGED <<store, ret, rid>>
       ELSE IF get_db = "None"
       THEN /\ Returns(NotConnected, 0)
            /\ UNCHANGED <<store, frame>>
       ELSE /\ ClockReads(now)
            /\ IF frame.selected_task_id \in DOMAIN tasks
               THEN LET new == MongoSet(tasks[frame.selected_task_id],
                                        Stamped(WithHours(result), now))
                    IN /\ tasks' = [tasks EXCEPT ![frame.selected_task_id] = new]
                       /\ Returns(IF ModifiedCount(tasks[frame.selected_task_id], new) > 0
                                  THEN "True" ELSE "False", 0)
               ELSE /\ tasks' = tasks
                    /\ Returns("False", 0)
            /\ frame' = IF ret' = "True" THEN Reselected(tasks') ELSE frame
            /\ UNCHANGED <<projects, time_logs>>
    /\ Quiet
    /\ UNCHANGED <<backstage, next_oid>>

\* log_time (lines 249-267), the dialog closed with `result`
TaskFrame_log_time(result) ==
    /\ pc = "idle"
    /\ frame.selected_task_id # 0
    /\ IF get_db = "None"
       THEN /\ Returns(NotConnected, 0)
            /\ Quiet
            /\ UNCHANGED <<store, next_oid, frame>>
       ELSE /\ next_oid <= MaxOids
            /\ time_logs' = InsertOne(time_logs, next_oid,
                    [task_id |-> frame.selected_task_id,
                     duration_minutes |-> result.duration_minutes])
            /\ next_oid' = next_oid + 1
            /\ tasks' = IncTotal(frame.selected_task_id, result.duration_minutes)
            /\ Returns("ObjectId", next_oid)
            /\ Prints(IF frame.selected_task_id \in DOMAIN tasks
                      THEN "Added time log" ELSE TaskNotFound, 0)
            /\ removed' = Nothing
            /\ again' = FALSE
            /\ frame' = Reselected(tasks')
            /\ projects' = projects
    /\ UNCHANGED backstage

-----------------------------------------------------------------------------
\* The reads as calls: get_db(), the isinstance check, then the query

\* A read returns `value`; it writes, prints and deletes nothing.
Reads(value, oid) ==
    /\ Returns(value, oid)
    /\ Quiet
    /\ UNCHANGED <<conn, store, next_oid, run>>

call_get_project(project_id) ==
    /\ pc = "idle"
    /\ IF get_db = "None"
       THEN Raises(NotConnected)
       ELSE IF ~IsObjectId(project_id)
       THEN Raises(BadProjectId)
       ELSE IF get_project(project_id) = None
       THEN Reads("None", 0)
       ELSE Reads("document", project_id)

call_get_tasks_for_project(project_id) ==
    /\ pc = "idle"
    /\ IF get_db = "None"
       THEN Raises(NotConnected)
       ELSE IF ~IsObjectId(project_id)
       THEN Raises(BadProjectId)
       ELSE Reads("list", 0)

call_get_task(task_id) ==
    /\ pc = "idle"
    /\ IF get_db = "None"
       THEN Raises(NotConnected)
       ELSE IF ~IsObjectId(task_id)
       THEN Raises(BadTaskId)
       ELSE IF get_task(task_id) = None
       THEN Reads("None", 0)
       ELSE Reads("document", task_id)

call_get_time_logs_for_task(task_id) ==
    /\ pc = "idle"
    /\ IF get_db = "None"
       THEN Raises(NotConnected)
       ELSE IF ~IsObjectId(task_id)
       THEN Raises(BadTaskId)
       ELSE Reads("list", 0)

call_get_total_logged_time_for_task(task_id) ==
    /\ pc = "idle"
    /\ IF get_db = "None"
       THEN Raises(NotConnected)
       ELSE IF ~IsObjectId(task_id)
       THEN Raises(BadTaskId)
       ELSE Reads("int", 0)

-----------------------------------------------------------------------------
\* Web routes (app.py)

\* flash(message, category) followed by the redirect: the route reports, the store is untouched
Flashes(message) ==
    /\ Returns(message, 0)
    /\ Quiet
    /\ UNCHANGED <<conn, store, next_oid, run>>

\* strptime(s, DATE_FORMAT) if s else None, on a form field (app.py:227-228, 272-273)
FormDate(field) == IF field.kind = "None" THEN None ELSE DateOf(field)

\* strptime raises ValueError on the form field
FormDateBad(field) == field.kind # "None" /\ DateOf(field) = None

\* GET /api/projects/<project_id_str>/tasks: an id of 0 is a string ObjectId() rejects
get_tasks_api(project_id) ==
    IF ~IsObjectId(project_id)
    THEN Flashes("400: Invalid Project ID format")
    ELSE IF get_db = "None"
    THEN Flashes("500: Database connection error")
    ELSE call_get_tasks_for_project(project_id)

\* POST /projects/add: `name` is the form's name field, None when the form has none
route_add_project(name, start_date_str, end_date_str, now1, now2) ==
    LET project_name == IF name = None THEN <<"U">> ELSE name[1]
    IN IF FormDateBad(start_date_str) \/ FormDateBad(end_date_str)
       THEN Flashes("flash: Input Error adding project")
       ELSE IF strip(project_name) = <<>>
       THEN Flashes("flash: Project name is required.")
       ELSE IF /\ FormDate(start_date_str) # None
               /\ FormDate(end_date_str) # None
               /\ FormDate(end_date_str)[1] < FormDate(start_date_str)[1]
       THEN Flashes("flash: End date cannot be earlier than start date.")
       ELSE add_project(strip(project_name), FormDate(start_date_str),
                        FormDate(end_date_str), now1, now2)

\* POST /projects/edit/<project_id_str>: an id of 0 is a string ObjectId() rejects
route_edit_project(project_id, name, start_date_str, end_date_str, now) ==
    IF ~IsObjectId(project_id)
    THEN Flashes("flash: Invalid Project ID format for editing")
    ELSE IF FormDateBad(start_date_str) \/ FormDateBad(end_date_str)
    THEN Flashes("flash: Input Error updating project")
    ELSE IF strip(name) = <<>>
    THEN Flashes("flash: Project name cannot be empty.")
    ELSE IF /\ FormDate(start_date_str) # None
            /\ FormDate(end_date_str) # None
            /\ FormDate(end_date_str)[1] < FormDate(start_date_str)[1]
    THEN Flashes("flash: End date cannot be earlier than start date.")
    ELSE update_project(project_id,
            [name |-> strip(name),
             start_date |-> IF FormDate(start_date_str) = None
                            THEN [kind |-> "None", n |-> 0]
                            ELSE [kind |-> "datetime", n |-> FormDate(start_date_str)[1]],
             end_date |-> IF FormDate(end_date_str) = None
                          THEN [kind |-> "None", n |-> 0]
                          ELSE [kind |-> "datetime", n |-> FormDate(end_date_str)[1]]],
            now)

\* POST /tasks/add/<project_id_str>: an id of 0 is a string ObjectId() rejects; `name`
\* is the form's name field, None when the form has none
route_add_task(project_id, name, est_hours_str, now1, now2) ==
    LET task_name == IF name = None THEN <<"U">> ELSE name[1]
        estimated_hours == IF est_hours_str.kind = "None" THEN None
                           ELSE PyFloat(est_hours_str)
    IN IF ~IsObjectId(project_id)
       THEN Flashes("flash: Invalid Project ID format when adding task")
       ELSE IF est_hours_str.kind # "None" /\ PyFloat(est_hours_str) = None
       THEN Flashes("flash: Input Error adding task")
       ELSE IF strip(task_name) = <<>>
       THEN Flashes("flash: Task name is required.")
       ELSE IF estimated_hours # None /\ estimated_hours[1] < 0
       THEN Flashes("flash: Estimated hours cannot be negative.")
       ELSE IF get_db = "None"
       THEN Flashes("flash: Database error adding task")
       ELSE /\ add_task(project_id, strip(task_name), estimated_hours, now1, now2)
            /\ ret' = "ObjectId"

-----------------------------------------------------------------------------
\* Inputs

\* An id argument: no ObjectId (0), an ObjectId the store has issued (its document
\* may be gone, or live in another collection), or one it never issues.
IdArgs == (0 .. (next_oid - 1)) \cup {MaxOids + 1}

PyValue(kind, n) == [kind |-> kind, n |-> n]

\* duration_minutes arguments: 30, 90, 0, -5, 0.5, 1.5, float("inf"), "30", "abc", None
DurationArgs ==
    {PyValue("int", 30), PyValue("int", 90), PyValue("int", 0), PyValue("int", -5),
     PyValue("float", 5), PyValue("float", 15), PyValue("inf", 0), PyValue("str", 30),
     PyValue("text", 0), PyValue("None", 0)}

LogDateArgs == {"None", "date", "datetime", "text"}

\* add_time_log's arguments where the store is exercised: 30 minutes today, 0 minutes,
\* 30 minutes on a log_date that is no date
TimeLogArgs ==
    {[duration_minutes |-> PyValue("int", 30), log_date |-> "None"],
     [duration_minutes |-> PyValue("int", 0), log_date |-> "None"],
     [duration_minutes |-> PyValue("int", 30), log_date |-> "text"]}

\* add_time_log's arguments where its validation is exercised: every duration with
\* a log_date of None, and 30 or 0 minutes with each other log_date
ValidationArgs ==
    {[duration_minutes |-> d, log_date |-> "None"] : d \in DurationArgs}
        \cup {[duration_minutes |-> PyValue("int", n), log_date |-> ld] :
                    n \in {30, 0}, ld \in LogDateArgs}

TaskUpdateArgs ==
    {[total_logged_minutes |-> 30],
     [estimated_hours |-> PyValue("text", 0)],
     [due_date |-> PyValue("text", 0)]}

ProjectUpdateArgs ==
    {[name |-> <<"b">>],
     [start_date |-> PyValue("text", 0)]}

\* Optional calendar days, as datetime values and as form fields
DateArgs == {None} \cup {Some(d) : d \in 1 .. MaxDate}

DateFields ==
    {PyValue("None", 0), PyValue("text", 0)} \cup {PyValue("str", d) : d \in 1 .. MaxDate}

DateValues ==
    {PyValue("None", 0)} \cup {PyValue("datetime", d) : d \in 1 .. MaxDate}

NameArgs == {<<>>, <<" ">>, <<"a">>}

\* estimated_hours arguments, in tenths of an hour: None, -1.0, 2.0
HoursArgs == {None, Some(-10), Some(20)}

\* The estimated_hours form field: empty, "abc", "-1", "2"
HoursFields ==
    {PyValue("None", 0), PyValue("text", 0), PyValue("str", -1), PyValue("str", 2)}

\* update_task's `updates` where the task fields vary: estimated_hours -1, 2.0, None,
\* or the name
TaskUpdates ==
    {[estimated_hours |-> PyValue("int", -1)],
     [estimated_hours |-> PyValue("float", 20)],
     [estimated_hours |-> PyValue("None", 0)],
     [name |-> <<"a">>],
     [name |-> <<"b">>]}

Times == 0 .. MaxTime

FormNames == {<<>>, <<" ">>, <<" ", "a">>}

\* update_project's `updates`: a name, one date, or both dates
ProjectUpdates ==
    {[name |-> n] : n \in NameArgs}
        \cup {[start_date |-> d] : d \in DateValues}
        \cup {[end_date |-> d] : d \in DateValues}
        \cup {[start_date |-> d, end_date |-> e] : d \in DateValues, e \in DateFields}

-----------------------------------------------------------------------------
\* The store, every handler one atomic call, the clock standing still

Next ==
    \/ \E up \in BOOLEAN : connect_db(up)
    \/ add_project(<<"a">>, None, None, 0, 0)
    \/ \E p \in IdArgs, u \in ProjectUpdateArgs : update_project(p, u, 0)
    \/ \E p \in IdArgs : delete_project(p)
    \/ \E p \in IdArgs : add_task(p, <<"a">>, None, 0, 0)
    \/ \E t \in IdArgs, u \in TaskUpdateArgs : update_task(t, u, 0)
    \/ \E t \in IdArgs : delete_task(t)
    \/ \E t \in IdArgs, a \in TimeLogArgs : add_time_log(t, a.duration_minutes, a.log_date)

Spec == Init /\ [][Next]_vars

\* Time logging alone: tasks are created and time is logged, nothing is deleted or updated
NextTimeLog ==
    \/ \E up \in BOOLEAN : connect_db(up)
    \/ add_project(<<"a">>, None, None, 0, 0)
    \/ \E p \in IdArgs : add_task(p, <<"a">>, None, 0, 0)
    \/ \E t \in IdArgs, a \in ValidationArgs :
            add_time_log(t, a.duration_minutes, a.log_date)

SpecTimeLog == Init /\ [][NextTimeLog]_vars

\* The projects collection, through the store's functions and through the web routes
NextProjects ==
    \/ \E up \in BOOLEAN : connect_db(up)
    \/ \E n \in NameArgs, s \in DateArgs, e \in DateArgs :
            next_oid <= MaxProjects /\ add_project(n, s, e, 0, 0)
    \/ \E p \in IdArgs, u \in ProjectUpdates : update_project(p, u, 0)
    \/ \E n \in {None} \cup {Some(f) : f \in FormNames}, s \in DateFields, e \in DateFields :
            next_oid <= MaxProjects /\ route_add_project(n, s, e, 0, 0)
    \/ \E p \in IdArgs, n \in FormNames, s \in DateFields, e \in DateFields :
            route_edit_project(p, n, s, e, 0)
    \/ \E p \in IdArgs : delete_project(p)

SpecProjects == Init /\ [][NextProjects]_vars

\* delete_project one storage call at a time, alone: no other call runs during a run
NextCascade ==
    \/ \E up \in BOOLEAN : connect_db(up)
    \/ add_project(<<"a">>, None, None, 0, 0)
    \/ \E p \in IdArgs : add_task(p, <<"a">>, None, 0, 0)
    \/ \E t \in IdArgs : delete_task(t)
    \/ \E t \in IdArgs : add_time_log(t, PyValue("int", 30), "None")
    \/ \E p \in IdArgs : delete_project_find(p)
    \/ delete_project_logs
    \/ delete_project_tasks
    \/ delete_project_document
    \/ delete_project_fails

SpecCascade == Init /\ [][NextCascade]_vars

\* The fields of projects and tasks, the clock running: documents are created and
\* updated through the store's functions and the task route, nothing is deleted
NextFields ==
    \/ \E up \in BOOLEAN : connect_db(up)
    \/ \E now1, now2 \in Times :
            next_oid <= MaxDocs /\ add_project(<<"a">>, None, Some(1), now1, now2)
    \/ \E p \in IdArgs, n \in NameArgs, h \in HoursArgs, now1, now2 \in Times :
            next_oid <= MaxDocs /\ add_task(p, n, h, now1, now2)
    \/ \E p \in IdArgs, n \in {None} \cup {Some(f) : f \in FormNames}, h \in HoursFields,
          now1, now2 \in Times :
            next_oid <= MaxDocs /\ route_add_task(p, n, h, now1, now2)
    \/ \E p \in IdArgs, u \in {[name |-> <<"a">>], [name |-> <<"b">>]}, now \in Times :
            update_project(p, u, now)
    \/ \E t \in IdArgs, u \in TaskUpdates, now \in Times : update_task(t, u, now)

SpecFields == Init /\ [][NextFields]_vars

\* Every function of the store that takes an id, reads included, and the tasks API
NextIds ==
    \/ \E up \in BOOLEAN : connect_db(up)
    \/ add_project(<<"a">>, None, None, 0, 0)
    \/ \E p \in IdArgs : call_get_project(p)
    \/ \E p \in IdArgs : update_project(p, [name |-> <<"b">>], 0)
    \/ \E p \in IdArgs : delete_project(p)
    \/ \E p \in IdArgs : add_task(p, <<"a">>, None, 0, 0)
    \/ \E p \in IdArgs : call_get_tasks_for_project(p)
    \/ \E t \in IdArgs : call_get_task(t)
    \/ \E t \in IdArgs : update_task(t, [name |-> <<"b">>], 0)
    \/ \E t \in IdArgs : delete_task(t)
    \/ \E t \in IdArgs : add_time_log(t, PyValue("int", 30), "None")
    \/ \E t \in IdArgs : call_get_time_logs_for_task(t)
    \/ \E t \in IdArgs : call_get_total_logged_time_for_task(t)
    \/ \E p \in IdArgs : get_tasks_api(p)

SpecIds == Init /\ [][NextIds]_vars

\* Projects and tasks read, updated and deleted by id; no time is logged
NextNotFound ==
    \/ \E up \in BOOLEAN : connect_db(up)
    \/ add_project(<<"a">>, None, None, 0, 0)
    \/ \E p \in IdArgs : call_get_project(p)
    \/ \E p \in IdArgs : update_project(p, [name |-> <<"b">>], 0)
    \/ \E p \in IdArgs : delete_project(p)
    \/ \E p \in IdArgs : add_task(p, <<"a">>, None, 0, 0)
    \/ \E t \in IdArgs : call_get_task(t)
    \/ \E t \in IdArgs : update_task(t, [name |-> <<"b">>], 0)
    \/ \E t \in IdArgs : delete_task(t)

SpecNotFound == Init /\ [][NextNotFound]_vars

\* The connection made, asked for and used, from one thread
NextConnection ==
    \/ \E up \in BOOLEAN : connect_db(up)
    \/ \E up \in BOOLEAN : call_get_db(up)
    \/ add_project(<<"a">>, None, None, 0, 0)
    \/ \E p \in IdArgs : add_task(p, <<"a">>, None, 0, 0)
    \/ \E p \in IdArgs : delete_project(p)

SpecConnection == Init /\ [][NextConnection]_vars

\* connect_db() called once by each of MaxThreads threads, their statements interleaved
Threads == 1 .. MaxThreads

NextThreads ==
    \/ \E th \in Threads : connect_db_test(th)
    \/ \E th \in Threads : connect_db_client(th)
    \/ \E th \in Threads, up \in BOOLEAN : connect_db_ismaster(th, up)
    \/ \E th \in Threads : connect_db_db(th)
    \/ \E th \in Threads, ok \in BOOLEAN : connect_db_indexes(th, ok)

SpecThreads == Init /\ [][NextThreads]_vars

\* connect_db() called once, statement by statement, by the only thread there is;
\* the calls that use the handle come before it or after it
Returned == cpc[1] \in {"start", "done"}

NextProvision ==
    \/ connect_db_test(1)
    \/ connect_db_client(1)
    \/ \E up \in BOOLEAN : connect_db_ismaster(1, up)
    \/ connect_db_db(1)
    \/ \E ok \in BOOLEAN : connect_db_indexes(1, ok)
    \/ Returned /\ \E up \in BOOLEAN : call_get_db(up)
    \/ Returned /\ add_project(<<"a">>, None, None, 0, 0)
    \/ Returned /\ \E p \in IdArgs : add_task(p, <<"a">>, None, 0, 0)
    \/ Returned /\ \E t \in IdArgs : delete_task(t)

SpecProvision == Init /\ [][NextProvision]_vars

\* Tasks created under a project id and updated with an `updates` mapping that names
\* project_id or name
NextReparent ==
    \/ \E up \in BOOLEAN : connect_db(up)
    \/ add_project(<<"a">>, None, None, 0, 0)
    \/ \E p \in IdArgs : add_task(p, <<"a">>, None, 0, 0)
    \/ \E t \in IdArgs, p \in IdArgs : update_task(t, [project_id |-> p], 0)
    \/ \E t \in IdArgs : update_task(t, [name |-> <<"b">>], 0)
    \/ \E p \in IdArgs : delete_project(p)

SpecReparent == Init /\ [][NextReparent]_vars

\* What TaskDialog returns (ui/dialogs.py:203-215): a name that is not empty, and
\* estimated_hours None or 2.0
TaskResults ==
    {[name |-> n, estimated_hours |-> h] :
        n \in {<<"a">>, <<"b">>}, h \in {PyValue("None", 0), PyValue("float", 20)}}

\* What TimeLogDialog returns (ui/dialogs.py:243-275): a positive whole number of
\* minutes and a datetime
LogResults == {[duration_minutes |-> 30, log_date |-> "datetime"]}

\* The desktop application: projects exist, one is selected, and the user adds,
\* selects and edits tasks and logs time in the TaskFrame
NextTaskFrame ==
    \/ \E up \in BOOLEAN : connect_db(up)
    \/ add_project(<<"a">>, None, None, 0, 0)
    \/ \E p \in DOMAIN projects : TaskFrame_load_tasks(p)
    \/ \E t \in frame.tasks : TaskFrame_select_task(t)
    \/ \E r \in TaskResults : TaskFrame_add_task(r, 0, 0)
    \/ \E r \in TaskResults : TaskFrame_edit_task(r, 0)
    \/ \E r \in LogResults : TaskFrame_log_time(r)

SpecTaskFrame == Init /\ [][NextTaskFrame]_vars

Workers == 1 .. MaxCalls

\* Time logged on existing tasks by worker threads while other workers delete tasks
NextDrift ==
    \/ \E up \in BOOLEAN : connect_db(up)
    \/ add_task(MaxOids + 1, <<"a">>, None, 0, 0)
    \/ \E w \in Workers, t \in DOMAIN tasks :
            add_time_log_insert(w, t, PyValue("int", 30), "None")
    \/ \E w \in Workers : add_time_log_inc(w)
    \/ \E w \in Workers, t \in IdArgs : delete_task_logs(w, t)
    \/ \E w \in Workers : delete_task_document(w)

SpecDrift == Init /\ [][NextDrift]_vars

\* Time logged on existing tasks by worker threads at the same time; nothing is deleted
NextLogging ==
    \/ \E up \in BOOLEAN : connect_db(up)
    \/ add_task(MaxOids + 1, <<"a">>, None, 0, 0)
    \/ \E w \in Workers, t \in DOMAIN tasks, d \in {30, 90} :
            add_time_log_insert(w, t, PyValue("int", d), "None")
    \/ \E w \in Workers : add_time_log_inc(w)

SpecLogging == Init /\ [][NextLogging]_vars

\* delete_project, one storage call per step, while other threads add tasks and log
\* time
NextRace ==
    \/ \E up \in BOOLEAN : connect_db(up)
    \/ add_project(<<"a">>, None, None, 0, 0)
    \/ \E p \in (DOMAIN projects \cup {run_project_id}) \ {0} :
            add_task_insert_one(p, <<"a">>, None, 0, 0)
    \/ \E w \in Workers, t \in (DOMAIN tasks \cup task_ids) :
            add_time_log_insert(w, t, PyValue("int", 30), "None")
    \/ \E w \in Workers : add_time_log_inc(w)
    \/ \E p \in DOMAIN projects : delete_project_find(p)
    \/ delete_project_logs
    \/ delete_project_tasks
    \/ delete_project_document

SpecRace == Init /\ [][NextRace]_vars

-----------------------------------------------------------------------------
\* Properties

Connected == get_db # "None"

\* A delete_project or delete_task call that reaches storage is the step whose last
\* print is "Deleted project" or "Deleted task"; the properties about those calls
\* look at no other step.
\*
\* C1: after delete_project(p) on a Project p, no Task with project_id = p remains,
\* and for every Task it had, get_task is absent and get_time_logs_for_task is empty.
C1_DeleteProjectCascades ==
    [][printed'.what = "Deleted project"
          => \A p \in IdArgs :
                (p \in DOMAIN projects /\ delete_project(p))
                    => /\ ret' = "True"
                       /\ TasksOfProject(p)' = {}
                       /\ \A t \in TasksOfProject(p) :
                              /\ get_task(t)' = None
                              /\ get_time_logs_for_task(t)' = {}
      ]_vars

\* delete_project has returned true, having removed the Project document, a Task of
\* the project and a Time Log of that Task.
C1_Witness ==
    /\ ret = "True"
    /\ printed.what = "Deleted project"
    /\ removed.projects # {}
    /\ removed.tasks # {}
    /\ removed.time_logs # {}

\* C2: after delete_task(t), no Time Log with task_id = t remains, whether or not
\* the Task document existed.
C2_DeleteTaskCascades ==
    [][printed'.what = "Deleted task"
          => \A t \in IdArgs :
                (IsObjectId(t) /\ Connected /\ delete_task(t))
                    => /\ ret' = (IF t \in DOMAIN tasks THEN "True" ELSE "False")
                       /\ get_time_logs_for_task(t)' = {}
      ]_vars

\* delete_task has removed the time logs of a task id that had no Task document.
C2_Witness ==
    /\ ret = "False"
    /\ printed.what = "Deleted task"
    /\ removed.tasks = {}
    /\ removed.time_logs # {}

\* C3: where tasks are only created and time is only logged, the stored
\* total_logged_minutes of every Task equals get_total_logged_time_for_task.
C3_TotalMatchesLogs ==
    \A t \in DOMAIN tasks :
        tasks[t].total_logged_minutes = get_total_logged_time_for_task(t)

\* A task with two time logs, of 30 and 90 minutes.
C3_Witness ==
    \E t \in DOMAIN tasks :
        /\ Cardinality(get_time_logs_for_task(t)) = 2
        /\ tasks[t].total_logged_minutes = 120

\* A Task of the run's project, or a Time Log of a Task the run found, is still stored.
ChildrenRemain(p) == TasksOfProject(p) # {} \/ LogsOfTasks(task_ids) # {}

\* C4 as stated: in every state of a delete_project(p) run, one that failed included,
\* the Project document of p is present whenever a Task or Time Log of p is.
C4_ProjectOutlivesChildren ==
    (pc # "idle" \/ ret = "PyMongoError")
        => (ChildrenRemain(run_project_id) => run_project_id \in DOMAIN projects)

\* C4 amended: no step of a delete_project(p) run leaves p without its Project
\* document while a Task or Time Log of p remains, unless p was so before the step;
\* so a run that began with the document present keeps it until the children are gone.
C4_LeafFirst ==
    [][\A p \in IdArgs :
          (pc # "idle" /\ p = run_project_id
                /\ (ChildrenRemain(p) => p \in DOMAIN projects))
              => (ChildrenRemain(p) => p \in DOMAIN projects)'
      ]_vars

\* The run has removed the logs and the tasks it found; the Project document is still there.
C4_Witness ==
    /\ pc = "delete_project"
    /\ removed.time_logs # {}
    /\ removed.tasks # {}
    /\ run_project_id \in DOMAIN projects

\* C5: add_time_log on an ObjectId that is no Task's fails and inserts no Time Log.
C5_NoOrphanLog ==
    [][\A t \in IdArgs, d \in DurationArgs, ld \in LogDateArgs :
          (IsObjectId(t) /\ t \notin DOMAIN tasks /\ Connected /\ add_time_log(t, d, ld))
              => /\ time_logs' = time_logs
                 /\ ret' # "ObjectId"
      ]_vars

\* The duration is no positive integer: zero, negative, a fraction, or nothing that
\* has an integer value.
NotPositiveInteger(d) ==
    \/ d.kind \in {"text", "None", "inf"}
    \/ d.kind \in {"int", "str"} /\ d.n <= 0
    \/ d.kind = "float" /\ (d.n <= 0 \/ d.n % 10 # 0)

\* C6: add_time_log with a duration that is no positive integer raises a ValueError
\* and writes nothing (a step either raised a ValueError and wrote nothing, or was no
\* such call); every stored Time Log has duration_minutes > 0.
C6_DurationValidated ==
    [][/\ \/ ret' \in ValueErrors /\ UNCHANGED store
          \/ \A t \in IdArgs, a \in ValidationArgs :
                ~(Connected /\ NotPositiveInteger(a.duration_minutes)
                            /\ add_time_log(t, a.duration_minutes, a.log_date))
       /\ \A l \in DOMAIN time_logs' : time_logs'[l].duration_minutes > 0
      ]_vars

\* C7: update_task leaves the stored total_logged_minutes as it was, whatever the updates.
C7_TotalNotSettable ==
    [][\A t \in DOMAIN tasks, u \in TaskUpdateArgs :
          update_task(t, u, 0)
              => /\ t \in DOMAIN tasks'
                 /\ tasks'[t].total_logged_minutes = tasks[t].total_logged_minutes
      ]_vars

\* C8: delete_project and delete_task return true on an id whose document exists and
\* leave the document absent; called on an id whose document is absent, as the second
\* of two calls in a row is, they return false.
C8_DeleteTwice ==
    [][printed'.what \in {"Deleted project", "Deleted task"}
          => \A x \in IdArgs :
                (IsObjectId(x) /\ Connected)
                    => /\ delete_project(x)
                           => /\ ret' = (IF x \in DOMAIN projects THEN "True" ELSE "False")
                              /\ x \notin DOMAIN projects'
                       /\ delete_task(x)
                           => /\ ret' = (IF x \in DOMAIN tasks THEN "True" ELSE "False")
                              /\ x \notin DOMAIN tasks'
      ]_vars

\* delete_project has returned false on the id whose Project document the call
\* before it removed.
C8_Witness ==
    /\ ret = "False"
    /\ printed.what = "Deleted project"
    /\ again

\* C9: every stored Project with both dates present has end_date >= start_date.
C9_DatesOrdered ==
    \A p \in DOMAIN projects :
        (projects[p].start_date # None /\ projects[p].end_date # None)
            => projects[p].end_date[1] >= projects[p].start_date[1]

\* C10: add_project with an empty or whitespace-only name raises a validation error
\* and creates no Project; every stored Project has a non-empty name.
C10_NameRequired ==
    [][/\ \A n \in NameArgs, s \in DateArgs, e \in DateArgs :
            (Connected /\ strip(n) = <<>> /\ add_project(n, s, e, 0, 0))
                => /\ projects' = projects
                   /\ ret' \in ValueErrors
       /\ \A p \in DOMAIN projects' : projects'[p].name # <<>>
      ]_vars

\* C11: add_task with an empty name, or with an estimated_hours that is present and
\* negative, raises a validation error and inserts no Task.
C11_TaskValidated ==
    [][\A p \in IdArgs, n \in NameArgs, h \in HoursArgs, now1, now2 \in Times :
          (Connected /\ (n = <<>> \/ (h # None /\ h[1] < 0)) /\ add_task(p, n, h, now1, now2))
              => /\ tasks' = tasks
                 /\ ret' \in ValueErrors
      ]_vars

\* C12: update_task with an estimated_hours of -1 raises a validation error and leaves
\* the stored Task, its estimated_hours and updated_at included, unchanged.
C12_NegativeHoursRejected ==
    [][\A t \in DOMAIN tasks, now \in Times :
          (Connected /\ update_task(t, [estimated_hours |-> PyValue("int", -1)], now))
              => /\ ret' \in ValueErrors
                 /\ tasks' = tasks
      ]_vars

\* C13: get_project / get_task on the id add_project / add_task has just returned gives
\* a record whose caller-supplied fields are the inputs and whose created_at equals its
\* updated_at; a Task's total_logged_minutes is 0.  (The record read is the document
\* under the returned id in the store the call leaves.)
C13_RoundTrip ==
    [][/\ \A now1, now2 \in Times :
            (Connected /\ add_project(<<"a">>, None, Some(1), now1, now2))
                => /\ rid' \in DOMAIN projects'
                   /\ LET got == projects'[rid']
                      IN /\ got.name = <<"a">>
                         /\ got.start_date = None
                         /\ got.end_date = Some(1)
                         /\ got.created_at = got.updated_at
       /\ \A p \in IdArgs, n \in NameArgs, h \in HoursArgs, now1, now2 \in Times :
            (Connected /\ IsObjectId(p) /\ add_task(p, n, h, now1, now2))
                => /\ rid' \in DOMAIN tasks'
                   /\ LET got == tasks'[rid']
                      IN /\ got.project_id = p
                         /\ got.name = n
                         /\ got.estimated_hours = h
                         /\ got.total_logged_minutes = 0
                         /\ got.created_at = got.updated_at
      ]_vars

\* C14: update_project and update_task on an existing document return true exactly
\* when a stored field named in the updates changes value, false when every supplied
\* field equals the stored one, and refresh updated_at either way.
C14_UpdateReportsChange ==
    [][/\ \A p \in DOMAIN projects, u \in {[name |-> <<"a">>], [name |-> <<"b">>]},
             now \in Times :
            (Connected /\ update_project(p, u, now))
                => /\ ret' = IF \E k \in DOMAIN u : projects'[p][k] # projects[p][k]
                             THEN "True" ELSE "False"
                   /\ projects'[p].updated_at = now
       /\ \A t \in DOMAIN tasks, u \in TaskUpdates, now \in Times :
            (Connected /\ update_task(t, u, now))
                => /\ ret' = IF \E k \in DOMAIN u : tasks'[t][k] # tasks[t][k]
                             THEN "True" ELSE "False"
                   /\ tasks'[t].updated_at = now
      ]_vars

\* C15: on a well-formed id that matches no document, get_project and get_task
\* return None, update_project and update_task return False and leave the store as it
\* was, delete_project and delete_task return False; none of them raises.
C15_NotFoundIsAValue ==
    [][\A x \in IdArgs :
          (IsObjectId(x) /\ Connected)
              => /\ (x \notin DOMAIN projects /\ call_get_project(x))
                        => ret' = "None" /\ UNCHANGED store
                 /\ (x \notin DOMAIN projects /\ update_project(x, [name |-> <<"b">>], 0))
                        => ret' = "False" /\ UNCHANGED store
                 /\ (x \notin DOMAIN projects /\ delete_project(x))
                        => ret' = "False" /\ projects' = projects
                 /\ (x \notin DOMAIN tasks /\ call_get_task(x))
                        => ret' = "None" /\ UNCHANGED store
                 /\ (x \notin DOMAIN tasks /\ update_task(x, [name |-> <<"b">>], 0))
                        => ret' = "False" /\ UNCHANGED store
                 /\ (x \notin DOMAIN tasks /\ delete_task(x))
                        => ret' = "False" /\ tasks' = tasks
      ]_vars

\* An update has returned False on a connected store that holds no project and no
\* task: its id matched no document.
C15_Witness ==
    /\ Connected
    /\ ret = "False"
    /\ printed = Silent
    /\ projects = <<>>
    /\ tasks = <<>>
    /\ next_oid > 1

\* The errors of a call whose id argument is no ObjectId: the ValueError of the
\* isinstance check, or the ConnectionError of get_db() before it.
IdErrors == {BadProjectId, BadTaskId, NotConnected}

\* C16: every function of the store that takes an id raises on an argument that is no
\* ObjectId and leaves the three collections unchanged; the tasks API answers 400.
C16_BadIdRejected ==
    [][\A x \in IdArgs :
          (~IsObjectId(x)
            /\ \/ call_get_project(x)
               \/ update_project(x, [name |-> <<"b">>], 0)
               \/ delete_project(x)
               \/ add_task(x, <<"a">>, None, 0, 0)
               \/ call_get_tasks_for_project(x)
               \/ call_get_task(x)
               \/ update_task(x, [name |-> <<"b">>], 0)
               \/ delete_task(x)
               \/ add_time_log(x, PyValue("int", 30), "None")
               \/ call_get_time_logs_for_task(x)
               \/ call_get_total_logged_time_for_task(x)
               \/ get_tasks_api(x))
              => /\ ret' \in IdErrors \cup {"400: Invalid Project ID format"}
                 /\ Connected => ret' \notin {NotConnected}
                 /\ UNCHANGED <<store, next_oid>>
                 /\ removed' = Nothing
      ]_vars

\* A call was refused for its task id on a connected store that holds tasks.
C16_Witness ==
    /\ Connected
    /\ ret = BadTaskId
    /\ tasks # <<>>

\* C17: connect_db() called when a connection is already established opens no new
\* connection and leaves the client and the database handle as they were.
C17_ConnectIdempotent ==
    [][\A up \in BOOLEAN :
          (_client # "None" /\ connect_db(up))
              => /\ UNCHANGED <<_client, _db, opened>>
                 /\ ret' = "None"]_vars

\* connect_db() has returned without an error while a project made over the
\* established connection is stored: the call found the connection in place.
C17_Witness ==
    /\ Connected
    /\ opened = 1
    /\ projects # <<>>
    /\ ret = "None"

\* C18: connect_db() called while the established connection is no longer live (the
\* server cannot be reached during the call) finds that out, tries to connect once
\* more and raises the connectivity error of that attempt.
C18_DeadConnectionDetected ==
    [][(_client # "None" /\ connect_db(FALSE)) => ret' = CannotConnect]_vars

\* C19: get_db() with no connection established tries one connect first: it returns
\* a usable handle when the server can be reached at that moment, and raises a
\* connectivity error only when it cannot.
C19_LazyConnect ==
    [][\A up \in BOOLEAN :
          (_db = "None" /\ call_get_db(up))
              => IF up
                 THEN ret' = "handle" /\ _db' # "None"
                 ELSE ret' \in {NotConnected, CannotConnect}]_vars

\* C20: whatever the interleaving of the threads that call connect_db() first, at
\* most one of the calls makes a client and connects: the connection is established
\* at most once.
C20_OneClient == opened <= 1

\* C21: a create_index that fails during the first successful connect is not fatal:
\* connect_db() returns normally with the client and the handle set, the handle
\* stays set from then on, and every later get_db() returns it.
C21_IndexFailureNotFatal ==
    [][/\ connect_db_indexes(1, FALSE) =>
            /\ ret' = "None"
            /\ _client' # "None"
            /\ _db' = "project_tracker_db"
       /\ _db # "None" =>
            /\ _db' = _db
            /\ \A up \in BOOLEAN : call_get_db(up) => ret' = "handle"]_vars

\* connect_db() has just returned after the warning about the indexes
C21_Witness ==
    /\ printed.what = IndexWarning
    /\ cpc[1] = "done"
    /\ ret = "None"
    /\ Connected

\* C22: Time Logs are append-only.  No call changes a field of a Time Log that
\* exists before and after it; a Time Log appears only in an add_time_log call, as
\* the one document the call returns the id of, and disappears only in a
\* delete_task or delete_project call.
C22_AppendOnly ==
    [][/\ \A l \in DOMAIN time_logs \cap DOMAIN time_logs' : time_logs'[l] = time_logs[l]
       /\ DOMAIN time_logs' \ DOMAIN time_logs # {} =>
            /\ DOMAIN time_logs' \ DOMAIN time_logs = {rid'}
            /\ \E t \in IdArgs : add_time_log(t, PyValue("int", 30), "None")
       /\ DOMAIN time_logs \ DOMAIN time_logs' # {} =>
            \E x \in IdArgs : delete_task(x) \/ delete_project(x)]_vars

\* A task has been renamed by update_task while a Time Log of it, of the 30 minutes
\* it was added with, is stored.
C22_Witness ==
    /\ ret = "True"
    /\ printed = Silent
    /\ \E l \in DOMAIN time_logs :
            /\ time_logs[l].duration_minutes = 30
            /\ time_logs[l].task_id \in DOMAIN tasks
            /\ tasks[time_logs[l].task_id].name = <<"b">>

\* C23: a Task's project_id is set at creation and never reassigned: no call, an
\* update_task whose updates name project_id included, changes the project_id of a
\* Task that exists.  (An _id is never issued twice, so a Task that keeps its
\* project_id in every step has the one it was created with.)
C23_ProjectIdFixed ==
    [][\A t \in DOMAIN tasks \cap DOMAIN tasks' :
            tasks'[t].project_id = tasks[t].project_id]_vars

C25_OrphanRemains ==
    [][\A w \in Workers :
          (calls[w].task_id \notin DOMAIN tasks /\ add_time_log_inc(w))
              => /\ ret' = "ObjectId"
                 /\ rid' = calls[w].log
                 /\ tasks' = tasks
                 /\ rid' \in DOMAIN time_logs'
                 /\ time_logs'[rid'].task_id \notin DOMAIN tasks']_vars

\* C25, amended: when the parent Task is deleted between the insert and the
\* increment, the increment matches no Task, changes nothing, warns, and add_time_log
\* returns the new log id without raising.  Whether the log is still stored is decided
\* by delete_task: its delete_many removes every log of the task stored at that
\* moment, the one just inserted included, and its delete_one removes none; so the
\* log remains, without a parent, when it was inserted after the delete_many, and is
\* gone when it was inserted before.
C25_DriftWindow ==
    [][/\ \A w \in Workers :
            (calls[w].task_id \notin DOMAIN tasks /\ add_time_log_inc(w))
                => /\ ret' = "ObjectId"
                   /\ rid' = calls[w].log
                   /\ printed'.what = TaskNotFound
                   /\ UNCHANGED store
       /\ \A w \in Workers, t \in IdArgs :
            (IsObjectId(t) /\ Connected /\ delete_task_logs(w, t))
                => /\ LogsOfTasks({t})' = {}
                   /\ tasks' = tasks
       /\ \A w \in Workers :
            delete_task_document(w)
                => /\ time_logs' = time_logs
                   /\ calls[w].task_id \notin DOMAIN tasks']_vars

\* add_time_log has returned the id of a stored log whose Task, which existed when
\* the log was inserted, is gone; the warning was its last print.
C25_Witness ==
    /\ ret = "ObjectId"
    /\ printed.what = TaskNotFound
    /\ rid \in DOMAIN time_logs
    /\ time_logs[rid].task_id \notin DOMAIN tasks

\* C26: in the desktop TaskFrame, after an edit_task that updated the selected task
\* or a log_time that logged on it, the task list is reloaded and the same task is
\* selected again, with the edit, delete and log-time buttons enabled.
C26_SelectionKept ==
    [][\A e \in TaskResults, l \in LogResults :
          (\/ TaskFrame_edit_task(e, 0) /\ ret' = "True"
           \/ TaskFrame_log_time(l) /\ ret' = "ObjectId")
              => /\ frame'.tasks = TasksOfProject(frame.current_project_id)'
                 /\ frame'.selected_task_id = frame.selected_task_id
                 /\ frame'.edit_button = "normal"
                 /\ frame'.delete_button = "normal"
                 /\ frame'.log_time_button = "normal"]_vars

\* C27: whatever the interleaving of add_time_log calls on existing Tasks, with no
\* deletes, once every call has completed the total_logged_minutes of each Task is
\* the sum of the durations of its Time Logs: no increment is lost.
C27_NoLostIncrement ==
    (\A w \in Workers : calls[w] = Idle)
        => \A t \in DOMAIN tasks :
                tasks[t].total_logged_minutes = get_total_logged_time_for_task(t)

\* Two add_time_log calls on one Task that overlapped have both completed: the
\* second returned while the log of the first was stored, and the task has two logs.
C27_Witness ==
    /\ \A w \in Workers : calls[w] = Idle
    /\ \E t \in DOMAIN tasks :
            /\ Cardinality(get_time_logs_for_task(t)) = 2
            /\ rid \in get_time_logs_for_task(t)
            /\ \E l \in get_time_logs_for_task(t) : l > rid

\* C28 as stated: whatever the interleaving of delete_project(p) with add_task(p, ...)
\* and add_time_log calls, once delete_project has returned true and no call is in
\* progress, no Task with project_id p and no Time Log of a Task of p remains.
C28_NothingOfProjectRemains ==
    [][(/\ delete_project_document
        /\ ret' = "True"
        /\ \A w \in Workers : calls[w] = Idle)
          => /\ TasksOfProject(run_project_id)' = {}
             /\ LogsOfTasks(task_ids)' = {}]_vars

\* C28, amended: each storage call of delete_project(p) removes what matches its
\* filter at that moment.  Its delete_many on time_logs leaves no log of the Tasks it
\* found; its delete_many on tasks leaves no Task with project_id p, those added since
\* the find included; its delete_one removes the Project document alone, and reports
\* whether it was there, when none of the Tasks found is stored any more.  What other
\* calls insert after the step that would have matched it stays.
C28_CascadeStepwise ==
    [][/\ delete_project_logs =>
            /\ LogsOfTasks(task_ids)' = {}
            /\ UNCHANGED <<projects, tasks>>
       /\ delete_project_tasks =>
            /\ TasksOfProject(run_project_id)' = {}
            /\ UNCHANGED <<projects, time_logs>>
       /\ delete_project_document =>
            /\ task_ids \cap DOMAIN tasks' = {}
            /\ run_project_id \notin DOMAIN projects'
            /\ ret' = (IF run_project_id \in DOMAIN projects THEN "True" ELSE "False")
            /\ UNCHANGED <<tasks, time_logs>>]_vars

\* delete_project has returned true with no call in progress, and a Task added under
\* the project during the run is stored.
C28_Witness ==
    /\ pc = "idle"
    /\ ret = "True"
    /\ printed.what = "Deleted project"
    /\ \A w \in Workers : calls[w] = Idle
    /\ run_project_id \notin DOMAIN projects
    /\ TasksOfProject(run_project_id) # {}

\* C29: a delete_project(id) that returns false, there being no Project document
\* with that id, leaves projects, tasks and time_logs unchanged, also where Tasks
\* were added under a project id that has no Project document.
C29_FalseChangesNothing ==
    [][\A p \in IdArgs :
          (delete_project(p) /\ ret' = "False") => UNCHANGED store]_vars

\* The documents with the ids `ids` are stored in `after` as they are in `before`.
Kept(before, after, ids) ==
    \A x \in ids : x \in DOMAIN after /\ after[x] = before[x]

\* C30: delete_project(p) removes only p's subtree: every other Project, every Task
\* whose project_id is not p and every Time Log that is not of a Task of p are
\* unchanged after the call; delete_task(t) changes no Project, no other Task and
\* no Time Log of another Task.
C30_OnlyOwnSubtree ==
    [][/\ printed'.what = "Deleted project" =>
            \A p \in IdArgs :
                delete_project(p) =>
                    /\ Kept(projects, projects', DOMAIN projects \ {p})
                    /\ Kept(tasks, tasks', {t \in DOMAIN tasks : tasks[t].project_id # p})
                    /\ Kept(time_logs, time_logs',
                            {l \in DOMAIN time_logs :
                                time_logs[l].task_id \notin TasksOfProject(p)})
       /\ printed'.what = "Deleted task" =>
            \A t \in IdArgs :
                delete_task(t) =>
                    /\ projects' = projects
                    /\ Kept(tasks, tasks', DOMAIN tasks \ {t})
                    /\ Kept(time_logs, time_logs',
                            {l \in DOMAIN time_logs : time_logs[l].task_id # t})
      ]_vars

\* delete_project has removed a Task and its Time Log while a Task under another
\* project id is stored.
C30_Witness ==
    /\ printed.what = "Deleted project"
    /\ removed.tasks # {}
    /\ removed.time_logs # {}
    /\ tasks # <<>>

====
